---- MODULE Spec2Model ----
(***************************************************************************)
(* The two screenshot scripts of web/: take_screenshots.py and             *)
(* take_more_screenshots.py.  Each script is one straight-line block under *)
(* "with sync_playwright() as p:".  A run executes the statements of one   *)
(* script in order against a headless browser; any exception leaves the    *)
(* with-block at once.  The state is the interpreter's position, the       *)
(* browsers and the page it drives, the output directory and standard      *)
(* output.                                                                 *)
(***************************************************************************)
EXTENDS Integers, Sequences, FiniteSets, TLC

VARIABLES
    script,      \* which of the two scripts this run executes
    controls,    \* element ids the served application exposes
    files,       \* fixture paths that exist on the local filesystem
    pc,          \* index of the next statement of the script
    status,      \* "running" | "raised" | "exited"
    failure,     \* <<>> or <<[line, cause]>>: the exception that left the block
    playwright,  \* "none" | "started" | "stopped": the driver behind p
    browsers,    \* sequence of "live" | "closed", one per launched browser
    browser,     \* the Python name browser: 0 (unbound) or an index of browsers
    page,        \* the Python name page: <<>> (unbound) or <<page record>>
    disk,        \* output directory: path -> <<>> (absent) or <<content>>
    captures,    \* log of page.screenshot calls that wrote their file
    notices,     \* lines printed to standard output
    sinceInput,  \* ms waited since the last page-mutating call
    lastMut,     \* op of the last page-mutating call ("none" before any)
    prev,        \* the last statement that completed: [op, ms]
    earlier      \* what each earlier run of the script in this directory left

vars == <<script, controls, files, pc, status, failure, playwright, browsers,
          browser, page, disk, captures, notices, sinceInput, lastMut, prev,
          earlier>>

----------------------------------------------------------------------------
(* Literals of the scripts.                                                *)

OUTDIR == "/Users/marcokotrotsos/PERSONAL/ditter/web/screenshots"
IMAGE == "/Users/marcokotrotsos/Downloads/example.JPEG"
VIDEO == "/Users/marcokotrotsos/Downloads/bb.mp4"

TakeScreenshots == "take_screenshots.py"
TakeMore == "take_more_screenshots.py"
Scripts == {TakeScreenshots, TakeMore}

\* f'{OUTDIR}/{name}': the directory and the file name in it.
Path(name) == <<OUTDIR, "/", name>>

\* The element ids the scripts address.
FileInput == "#file-input"
StyleCategory == "#style-category"
StyleAlgorithm == "#style-algorithm"
PaletteCategory == "#palette-category"
PaletteSelect == "#palette-select"
BtnStudio == "#btn-studio"
BtnExport == "#btn-export"
AllControls == {FileInput, StyleCategory, StyleAlgorithm, PaletteCategory,
                PaletteSelect, BtnStudio, BtnExport}

----------------------------------------------------------------------------
(* Statements.  Every statement of a script is one record; line is its     *)
(* line in the script.                                                     *)

Stmt(line, op, sel, arg, ms) ==
    [line |-> line, op |-> op, sel |-> sel, arg |-> arg, ms |-> ms]

Enter(l) == Stmt(l, "sync_playwright", "", "", 0)
Launch(l) == Stmt(l, "launch", "", "", 0)
NewPage(l) == Stmt(l, "new_page", "", "", 0)
Goto(l, url) == Stmt(l, "goto", "", url, 0)
WaitLoad(l) == Stmt(l, "wait_for_load_state", "", "networkidle", 0)
Sleep(l, s) == Stmt(l, "sleep", "", "", s * 1000)
\* Mutant: the settle wait is given no duration.
Wait_Zero(l, ms) == Stmt(l, "wait_for_timeout", "", "", 0)
Wait(l, ms) == Stmt(l, "wait_for_timeout", "", "", ms)
Upload(l, f) == Stmt(l, "set_input_files", FileInput, f, 0)
Select(l, sel, v) == Stmt(l, "select_option", sel, v, 0)
Click(l, sel) == Stmt(l, "click", sel, "", 0)
Press(l, key) == Stmt(l, "press", "", key, 0)
Evaluate(l, theme) == Stmt(l, "evaluate", "", theme, 0)
\* Mutant: the path does not depend on the scenario.
Shot_OnePath(l, name) == Stmt(l, "screenshot", "", Path("screenshot.png"), 0)
Shot(l, name) == Stmt(l, "screenshot", "", Path(name), 0)
Close(l) == Stmt(l, "close", "", "", 0)

\* print('1/9 landing'): number, "/", total, " ", label.
\* print('10 crosshatch'): number, " ", label; of is empty.
Progress(n, of, label) == [kind |-> "progress", n |-> n, of |-> of, label |-> label]
Completion(text) == [kind |-> "completion", n |-> 0, of |-> <<>>, label |-> text]
Say(l, notice) == Stmt(l, "print", "", notice, 0)

URL == "http://localhost:8000"

Script1 ==
    << Enter(9), Launch(10), NewPage(11), Goto(12, URL), WaitLoad(13), Sleep(14, 1),
       Shot(17, "01-landing.png"), Say(18, Progress(1, <<9>>, "landing")),
       Upload(21, IMAGE), Wait(22, 2000),
       Shot(23, "02-gradient-loaded.png"), Say(24, Progress(2, <<9>>, "image loaded")),
       Shot(27, "03-control-panel.png"), Say(28, Progress(3, <<9>>, "control panel")),
       Select(31, StyleCategory, "halftone"), Wait(32, 500),
       Select(33, StyleAlgorithm, "dot-halftone"), Wait(34, 1500),
       Shot(35, "04-halftone.png"), Say(36, Progress(4, <<9>>, "halftone")),
       Select(39, StyleCategory, "creative"), Wait(40, 500),
       Select(41, StyleAlgorithm, "reaction-diffusion"), Wait(42, 2000),
       Shot(43, "05-creative.png"), Say(44, Progress(5, <<9>>, "creative")),
       Select(47, StyleCategory, "ordered"), Wait(48, 500),
       Select(49, StyleAlgorithm, "bayer-4x4"), Wait(50, 500),
       Select(51, PaletteCategory, "retro"), Wait(52, 500),
       Select(53, PaletteSelect, "gameboy"), Wait(54, 1500),
       Shot(55, "06-retro-gameboy.png"), Say(56, Progress(6, <<9>>, "retro gameboy")),
       Click(59, BtnStudio), Wait(60, 1500),
       Shot(61, "07-studio.png"), Say(62, Progress(7, <<9>>, "studio")),
       Press(65, "Escape"), Wait(66, 500),
       Click(67, BtnExport), Wait(68, 500),
       Shot(69, "08-export.png"), Say(70, Progress(8, <<9>>, "export")),
       Press(73, "Escape"), Wait(74, 300),
       Evaluate(75, "light"), Wait(76, 500),
       Shot(77, "09-light-theme.png"), Say(78, Progress(9, <<9>>, "light theme")),
       Close(80), Say(81, Completion("All screenshots captured.")) >>

Script2 ==
    << Enter(9), Launch(10), NewPage(11), Goto(12, URL), WaitLoad(13), Sleep(14, 1),
       Upload(17, IMAGE), Wait(18, 2000),
       Select(21, StyleCategory, "pattern"), Wait(22, 300),
       Select(23, StyleAlgorithm, "crosshatch"), Wait(24, 1500),
       Shot(25, "10-crosshatch.png"), Say(26, Progress(10, <<>>, "crosshatch")),
       Select(29, StyleCategory, "noise"), Wait(30, 300),
       Select(31, StyleAlgorithm, "blue-noise"), Wait(32, 300),
       Select(33, PaletteCategory, "themed"), Wait(34, 300),
       Select(35, PaletteSelect, "cyberpunk"), Wait(36, 1500),
       Shot(37, "11-blue-noise-cyberpunk.png"),
       Say(38, Progress(11, <<>>, "blue noise cyberpunk")),
       Select(41, StyleCategory, "artistic"), Wait(42, 300),
       Select(43, StyleAlgorithm, "sketch"), Wait(44, 300),
       Select(45, PaletteCategory, "default"), Wait(46, 300),
       Select(47, PaletteSelect, "grayscale-8"), Wait(48, 1500),
       Shot(49, "12-sketch.png"), Say(50, Progress(12, <<>>, "sketch")),
       Select(53, StyleCategory, "error-diffusion"), Wait(54, 300),
       Select(55, StyleAlgorithm, "atkinson"), Wait(56, 300),
       Select(57, PaletteCategory, "themed"), Wait(58, 300),
       Select(59, PaletteSelect, "sepia"), Wait(60, 1500),
       Shot(61, "13-atkinson-sepia.png"), Say(62, Progress(13, <<>>, "atkinson sepia")),
       Select(65, StyleCategory, "creative"), Wait(66, 300),
       Select(67, StyleAlgorithm, "pixel-sort"), Wait(68, 300),
       Select(69, PaletteCategory, "default"), Wait(70, 300),
       Select(71, PaletteSelect, "grayscale-16"), Wait(72, 1500),
       Shot(73, "14-pixel-sort.png"), Say(74, Progress(14, <<>>, "pixel sort")),
       Select(77, StyleCategory, "threshold"), Wait(78, 300),
       Select(79, StyleAlgorithm, "otsu"), Wait(80, 300),
       Select(81, PaletteSelect, "bw"), Wait(82, 1500),
       Shot(83, "15-otsu.png"), Say(84, Progress(15, <<>>, "otsu")),
       Close(86),
       Launch(89), NewPage(90), Goto(91, URL), WaitLoad(92), Sleep(93, 1),
       Upload(96, VIDEO), Wait(97, 3000),
       Shot(100, "16-video-mode.png"), Say(101, Progress(16, <<>>, "video mode")),
       Select(104, StyleCategory, "halftone"), Wait(105, 300),
       Select(106, StyleAlgorithm, "dot-halftone"), Wait(107, 1500),
       Shot(108, "17-video-halftone.png"), Say(109, Progress(17, <<>>, "video halftone")),
       Close(111), Say(112, Completion("Done.")) >>

Program(s) == IF s = TakeScreenshots THEN Script1 ELSE Script2

----------------------------------------------------------------------------
(* The served application, as far as the scripts observe it: four select   *)
(* controls, two of them repopulated when their category control changes,  *)
(* two overlays, a theme attribute and the loaded media.                   *)

Selects == {StyleCategory, StyleAlgorithm, PaletteCategory, PaletteSelect}
Categories == {StyleCategory, PaletteCategory}
Dependents == {StyleAlgorithm, PaletteSelect}
DependentOf(c) == IF c = StyleCategory THEN StyleAlgorithm ELSE PaletteSelect

\* The value a control has before anything set it.
Initial == "(initial)"
\* The value a dependent control shows once its list was repopulated.
Repopulated == "(first option)"
\* ms a dependent control needs after its category control was set.
RepopulateMs == 300

FreshPage(owner) ==
    [owner |-> owner, url |-> "about:blank", idle |-> FALSE, media |-> "none",
     ctl |-> [c \in Selects |-> Initial],
     pending |-> [d \in Dependents |-> 0],
     overlays |-> <<>>, theme |-> Initial]

Monus(a, b) == IF a > b THEN a - b ELSE 0

\* ms of wall-clock time pass on the page.
AppElapse(pg, ms) ==
    [pg EXCEPT !.pending = [d \in Dependents |-> Monus(pg.pending[d], ms)]]

\* A select control is given a value; a category control repopulates its
\* dependent control, which takes RepopulateMs.
AppSelect(pg, sel, v) ==
    IF sel \in Categories
    THEN [pg EXCEPT !.ctl = [pg.ctl EXCEPT ![sel] = v, ![DependentOf(sel)] = Repopulated],
                    !.pending = [pg.pending EXCEPT ![DependentOf(sel)] = RepopulateMs]]
    ELSE [pg EXCEPT !.ctl = [pg.ctl EXCEPT ![sel] = v]]

AppUpload(pg, f) == [pg EXCEPT !.media = IF f = VIDEO THEN "video" ELSE "image"]

AppClick(pg, sel) ==
    IF sel = BtnStudio THEN [pg EXCEPT !.overlays = Append(pg.overlays, "studio")]
    ELSE IF sel = BtnExport THEN [pg EXCEPT !.overlays = Append(pg.overlays, "export")]
    ELSE pg

AppPress(pg, key) ==
    IF key = "Escape" /\ pg.overlays # <<>>
    THEN [pg EXCEPT !.overlays = SubSeq(pg.overlays, 1, Len(pg.overlays) - 1)]
    ELSE pg

AppEvaluate(pg, theme) == [pg EXCEPT !.theme = theme]

\* What a screenshot of the page shows.
Snapshot(pg) ==
    [media |-> pg.media, ctl |-> pg.ctl, pending |-> pg.pending,
     overlays |-> pg.overlays, theme |-> pg.theme]

----------------------------------------------------------------------------
(* The interpreter.                                                        *)

\* Every path a script writes.
ShotPaths(s) == {Program(s)[i].arg : i \in {j \in DOMAIN Program(s) : Program(s)[j].op = "screenshot"}}
AllPaths == ShotPaths(TakeScreenshots) \cup ShotPaths(TakeMore)

Cur == Program(script)[pc]
AtEnd == pc > Len(Program(script))
Running(op) == status = "running" /\ ~AtEnd /\ Cur.op = op

PageLive == page # <<>> /\ browsers[page[1].owner] = "live"

\* The statement returned: control moves to the next statement.
Advance ==
    /\ pc' = pc + 1
    /\ prev' = [op |-> Cur.op, ms |-> Cur.ms]
    /\ UNCHANGED <<script, controls, files, status, failure, earlier>>

\* Mutant: the exception is swallowed and the script goes on.
Raise_Swallowed(cause) ==
    /\ pc' = pc + 1
    /\ failure' = <<[line |-> Cur.line, cause |-> cause]>>
    /\ UNCHANGED <<script, controls, files, status, playwright, browsers, browser, page,
                   disk, captures, notices, sinceInput, lastMut, prev, earlier>>

\* Mutant: a failure ends only the current session; the script goes on with
\* the next browser launch, if there is one.
Raise_NextSession(cause) ==
    LET later == {i \in (pc + 1)..Len(Program(script)) : Program(script)[i].op = "launch"} IN
    /\ failure' = <<[line |-> Cur.line, cause |-> cause]>>
    /\ IF later = {}
       THEN status' = "raised" /\ pc' = pc
       ELSE status' = status /\ pc' = CHOOSE i \in later : \A j \in later : i <= j
    /\ UNCHANGED <<script, controls, files, playwright, browsers, browser, page,
                   disk, captures, notices, sinceInput, lastMut, prev, earlier>>

\* Mutant: the failing statement is tried again.
Raise_Retry(cause) ==
    /\ failure' = <<[line |-> Cur.line, cause |-> cause]>>
    /\ UNCHANGED <<script, controls, files, pc, status, playwright, browsers, browser,
                   page, disk, captures, notices, sinceInput, lastMut, prev, earlier>>

\* The statement raised: the exception propagates out of the with-block; no
\* statement of the script handles it.
Raise(cause) ==
    /\ status' = "raised"
    /\ failure' = <<[line |-> Cur.line, cause |-> cause]>>
    /\ UNCHANGED <<script, controls, files, pc, playwright, browsers, browser, page,
                   disk, captures, notices, sinceInput, lastMut, prev, earlier>>

\* with sync_playwright() as p: the driver process is started.
SyncPlaywright ==
    /\ Running("sync_playwright")
    /\ \E ok \in BOOLEAN :
        IF ok
        THEN /\ playwright' = "started"
             /\ Advance
             /\ UNCHANGED <<browsers, browser, page, disk, captures, notices,
                            sinceInput, lastMut>>
        ELSE Raise("DriverError")

\* browser = p.chromium.launch(headless=True)
LaunchBrowser ==
    /\ Running("launch")
    /\ \E ok \in BOOLEAN :
        IF ok
        THEN /\ browsers' = Append(browsers, "live")
             /\ browser' = Len(browsers) + 1
             /\ Advance
             /\ UNCHANGED <<playwright, page, disk, captures, notices, sinceInput, lastMut>>
        ELSE Raise("LaunchError")

\* Mutant: the new page carries over what the previous page showed.
OpenPage_KeepsState ==
    /\ Running("new_page")
    /\ IF browser # 0 /\ browsers[browser] = "live"
       THEN /\ page' = IF page = <<>> THEN <<FreshPage(browser)>>
                       ELSE <<[page[1] EXCEPT !.owner = browser]>>
            /\ sinceInput' = 0
            /\ lastMut' = "none"
            /\ Advance
            /\ UNCHANGED <<playwright, browsers, browser, disk, captures, notices>>
       ELSE Raise("TargetClosedError")

\* page = browser.new_page(viewport=...)
OpenPage ==
    /\ Running("new_page")
    /\ IF browser # 0 /\ browsers[browser] = "live"
       THEN /\ page' = <<FreshPage(browser)>>
            /\ sinceInput' = 0
            /\ lastMut' = "none"
            /\ Advance
            /\ UNCHANGED <<playwright, browsers, browser, disk, captures, notices>>
       ELSE Raise("TargetClosedError")

\* page.goto('http://localhost:8000')
Navigate ==
    /\ Running("goto")
    /\ \E ok \in BOOLEAN :
        IF ok /\ PageLive
        THEN /\ page' = <<[page[1] EXCEPT !.url = Cur.arg]>>
             /\ sinceInput' = 0
             /\ lastMut' = "goto"
             /\ Advance
             /\ UNCHANGED <<playwright, browsers, browser, disk, captures, notices>>
        ELSE Raise("NavigationError")

\* page.wait_for_load_state('networkidle')
WaitForLoadState ==
    /\ Running("wait_for_load_state")
    /\ \E ok \in BOOLEAN :
        IF ok /\ PageLive
        THEN /\ page' = <<[page[1] EXCEPT !.idle = TRUE]>>
             /\ Advance
             /\ UNCHANGED <<playwright, browsers, browser, disk, captures, notices,
                            sinceInput, lastMut>>
        ELSE Raise("NavigationError")

\* time.sleep(1): the interpreter sleeps, the page keeps running.
TimeSleep ==
    /\ Running("sleep")
    /\ page' = IF page = <<>> THEN page ELSE <<AppElapse(page[1], Cur.ms)>>
    /\ sinceInput' = sinceInput + Cur.ms
    /\ Advance
    /\ UNCHANGED <<playwright, browsers, browser, disk, captures, notices, lastMut>>

\* Mutant: the wait returns at once, no time passes on the page.
WaitForTimeout_NoBlock ==
    /\ Running("wait_for_timeout")
    /\ Advance
    /\ UNCHANGED <<playwright, browsers, browser, page, disk, captures, notices,
                   sinceInput, lastMut>>

\* page.wait_for_timeout(ms)
WaitForTimeout ==
    /\ Running("wait_for_timeout")
    /\ IF PageLive
       THEN /\ page' = <<AppElapse(page[1], Cur.ms)>>
            /\ sinceInput' = sinceInput + Cur.ms
            /\ Advance
            /\ UNCHANGED <<playwright, browsers, browser, disk, captures, notices, lastMut>>
       ELSE Raise("TargetClosedError")

\* An input action changed the page.
Mutated(pg) ==
    /\ page' = <<pg>>
    /\ sinceInput' = 0
    /\ lastMut' = Cur.op
    /\ Advance
    /\ UNCHANGED <<playwright, browsers, browser, disk, captures, notices>>

\* Mutant: a missing fixture file is not noticed.
SetInputFiles_NoFileCheck ==
    /\ Running("set_input_files")
    /\ IF ~PageLive THEN Raise("TargetClosedError")
       ELSE IF Cur.sel \notin controls THEN Raise("ActionTargetMissingError")
       ELSE Mutated(AppUpload(page[1], Cur.arg))

\* page.set_input_files('#file-input', path)
SetInputFiles ==
    /\ Running("set_input_files")
    /\ IF ~PageLive THEN Raise("TargetClosedError")
       ELSE IF Cur.arg \notin files THEN Raise("FixtureNotFoundError")
       ELSE IF Cur.sel \notin controls THEN Raise("ActionTargetMissingError")
       ELSE Mutated(AppUpload(page[1], Cur.arg))

\* Mutant: a missing control is skipped silently.
SelectOption_SkipMissing ==
    /\ Running("select_option")
    /\ IF ~PageLive THEN Raise("TargetClosedError")
       ELSE IF Cur.sel \notin controls THEN Mutated(page[1])
       ELSE IF Cur.sel \in Dependents /\ page[1].pending[Cur.sel] > 0
            THEN Raise("OptionNotReadyError")
       ELSE Mutated(AppSelect(page[1], Cur.sel, Cur.arg))

\* page.select_option(selector, value)
SelectOption ==
    /\ Running("select_option")
    /\ IF ~PageLive THEN Raise("TargetClosedError")
       ELSE IF Cur.sel \notin controls THEN Raise("ActionTargetMissingError")
       ELSE IF Cur.sel \in Dependents /\ page[1].pending[Cur.sel] > 0
            THEN Raise("OptionNotReadyError")
       ELSE Mutated(AppSelect(page[1], Cur.sel, Cur.arg))

\* page.click(selector)
ClickControl ==
    /\ Running("click")
    /\ IF ~PageLive THEN Raise("TargetClosedError")
       ELSE IF Cur.sel \notin controls THEN Raise("ActionTargetMissingError")
       ELSE Mutated(AppClick(page[1], Cur.sel))

\* Mutant: the key press does not reach the page.
KeyboardPress_NoEffect ==
    /\ Running("press")
    /\ IF ~PageLive THEN Raise("TargetClosedError")
       ELSE Mutated(page[1])

\* page.keyboard.press(key)
KeyboardPress ==
    /\ Running("press")
    /\ IF ~PageLive THEN Raise("TargetClosedError")
       ELSE Mutated(AppPress(page[1], Cur.arg))

\* page.evaluate("document.documentElement.setAttribute('data-theme', 'light')")
EvaluateScript ==
    /\ Running("evaluate")
    /\ IF ~PageLive THEN Raise("TargetClosedError")
       ELSE Mutated(AppEvaluate(page[1], Cur.arg))

\* Mutant: the page is reloaded after each capture, so the next scenario
\* starts from the application's initial controls.
Screenshot_ResetsPage ==
    /\ Running("screenshot")
    /\ \E ok \in BOOLEAN :
        IF ok /\ PageLive
        THEN /\ disk' = [disk EXCEPT ![Cur.arg] = <<Snapshot(page[1])>>]
             /\ captures' = Append(captures,
                    [path |-> Cur.arg, line |-> Cur.line, shot |-> Snapshot(page[1]),
                     owner |-> page[1].owner, settle |-> sinceInput, after |-> prev])
             /\ page' = <<[FreshPage(page[1].owner) EXCEPT !.media = page[1].media]>>
             /\ Advance
             /\ UNCHANGED <<playwright, browsers, browser, notices, sinceInput, lastMut>>
        ELSE Raise("CaptureError")

\* Mutant: a capture whose file already exists is skipped.
Screenshot_SkipExisting ==
    /\ Running("screenshot")
    /\ \E ok \in BOOLEAN :
        IF ok /\ PageLive
        THEN IF disk[Cur.arg] # <<>>
             THEN /\ Advance
                  /\ UNCHANGED <<playwright, browsers, browser, page, disk, captures,
                                 notices, sinceInput, lastMut>>
             ELSE /\ disk' = [disk EXCEPT ![Cur.arg] = <<Snapshot(page[1])>>]
                  /\ captures' = Append(captures,
                         [path |-> Cur.arg, line |-> Cur.line, shot |-> Snapshot(page[1]),
                          owner |-> page[1].owner, settle |-> sinceInput, after |-> prev])
                  /\ Advance
                  /\ UNCHANGED <<playwright, browsers, browser, page, notices,
                                 sinceInput, lastMut>>
        ELSE Raise("CaptureError")

\* page.screenshot(path=...): the file is created or overwritten.
Screenshot ==
    /\ Running("screenshot")
    /\ \E ok \in BOOLEAN :
        IF ok /\ PageLive
        THEN /\ disk' = [disk EXCEPT ![Cur.arg] = <<Snapshot(page[1])>>]
             /\ captures' = Append(captures,
                    [path |-> Cur.arg, line |-> Cur.line, shot |-> Snapshot(page[1]),
                     owner |-> page[1].owner, settle |-> sinceInput, after |-> prev])
             /\ Advance
             /\ UNCHANGED <<playwright, browsers, browser, page, notices, sinceInput, lastMut>>
        ELSE Raise("CaptureError")

\* Mutant: the notice is printed twice.
PrintNotice_Twice ==
    /\ Running("print")
    /\ notices' = notices \o <<Cur.arg, Cur.arg>>
    /\ Advance
    /\ UNCHANGED <<playwright, browsers, browser, page, disk, captures, sinceInput, lastMut>>

\* print(...)
PrintNotice ==
    /\ Running("print")
    /\ notices' = Append(notices, Cur.arg)
    /\ Advance
    /\ UNCHANGED <<playwright, browsers, browser, page, disk, captures, sinceInput, lastMut>>

\* Mutant: the browser is left open.
CloseBrowser_Skip ==
    /\ Running("close")
    /\ Advance
    /\ UNCHANGED <<playwright, browsers, browser, page, disk, captures, notices,
                   sinceInput, lastMut>>

\* browser.close()
CloseBrowser ==
    /\ Running("close")
    /\ IF browser # 0
       THEN /\ browsers' = [browsers EXCEPT ![browser] = "closed"]
            /\ Advance
            /\ UNCHANGED <<playwright, browser, page, disk, captures, notices,
                           sinceInput, lastMut>>
       ELSE Raise("NameError")

\* Mutant: stopping the driver leaves its browsers running.
StopDriver_Leak(bs) == bs

\* Stopping the driver ends the browser processes it launched.
StopDriver(bs) == [i \in DOMAIN bs |-> "closed"]

\* The with-block is left, by falling off its end or by an exception:
\* sync_playwright's __exit__ stops the driver.
ExitWith ==
    /\ \/ status = "running" /\ AtEnd
       \/ status = "raised"
    /\ status' = "exited"
    /\ playwright' = IF playwright = "started" THEN "stopped" ELSE playwright
    /\ browsers' = IF playwright = "started" THEN StopDriver(browsers) ELSE browsers
    /\ UNCHANGED <<script, controls, files, pc, failure, browser, page, disk, captures,
                   notices, sinceInput, lastMut, prev, earlier>>

Init ==
    /\ script \in Scripts
    /\ controls \in SUBSET AllControls
    /\ files \in SUBSET {IMAGE, VIDEO}
    /\ pc = 1
    /\ status = "running"
    /\ failure = <<>>
    /\ playwright = "none"
    /\ browsers = <<>>
    /\ browser = 0
    /\ page = <<>>
    /\ disk = [f \in AllPaths |-> <<>>]
    /\ captures = <<>>
    /\ notices = <<>>
    /\ sinceInput = 0
    /\ lastMut = "none"
    /\ prev = [op |-> "none", ms |-> 0]
    /\ earlier = <<>>

Next ==
    \/ SyncPlaywright
    \/ LaunchBrowser
    \/ OpenPage
    \/ Navigate
    \/ WaitForLoadState
    \/ TimeSleep
    \/ WaitForTimeout
    \/ SetInputFiles
    \/ SelectOption
    \/ ClickControl
    \/ KeyboardPress
    \/ EvaluateScript
    \/ Screenshot
    \/ PrintNotice
    \/ CloseBrowser
    \/ ExitWith

Spec == Init /\ [][Next]_vars

\* How many times the script is run in the same output directory.
MaxRuns == 2

\* The script is started again after a run has ended: a new interpreter, the
\* same application, fixtures and output directory.
Rerun ==
    /\ status = "exited"
    /\ Len(earlier) + 1 < MaxRuns
    /\ earlier' = Append(earlier, [captures |-> captures, notices |-> notices,
                                   disk |-> disk, failure |-> failure])
    /\ pc' = 1
    /\ status' = "running"
    /\ failure' = <<>>
    /\ playwright' = "none"
    /\ browsers' = <<>>
    /\ browser' = 0
    /\ page' = <<>>
    /\ captures' = <<>>
    /\ notices' = <<>>
    /\ sinceInput' = 0
    /\ lastMut' = "none"
    /\ prev' = [op |-> "none", ms |-> 0]
    /\ UNCHANGED <<script, controls, files, disk>>

NextRerun ==
    \/ Next
    \/ Rerun

SpecRerun == Init /\ [][NextRerun]_vars

\* Every call into the browser returns or raises, and the interpreter goes on
\* to the next statement or to the exit of the with-block.
SpecLive == Spec /\ WF_vars(Next)

----------------------------------------------------------------------------
(* Properties.                                                             *)

Failed == failure # <<>>
FailedWith(cause) == Failed /\ failure[1].cause = cause
LiveBrowsers == {i \in DOMAIN browsers : browsers[i] = "live"}
IsShot(st) == st.op = "screenshot"
PathsOf(sts) == [k \in DOMAIN sts |-> sts[k].arg]
\* The paths of the screenshot statements among the first i statements.
ShotPathsUpTo(s, i) == PathsOf(SelectSeq(SubSeq(Program(s), 1, i), IsShot))
CapturedPaths == [k \in DOMAIN captures |-> captures[k].path]
Written == {f \in AllPaths : disk[f] # <<>>}
Range(seq) == {seq[k] : k \in DOMAIN seq}
InputOps == {"set_input_files", "select_option", "click", "press", "evaluate"}

C2_Original ==
    FailedWith("FixtureNotFoundError") =>
        \A k \in DOMAIN captures : captures[k].owner # browser

\* C2 (amended): with the image missing, take_screenshots.py writes 01-landing.png
\* and nothing else, take_more_screenshots.py writes nothing; with the video
\* missing, take_more_screenshots.py writes neither capture 16 nor 17; and the
\* run never gets past the upload statement of a missing fixture.
C2_FixtureMissing ==
    /\ \A i \in 1..(pc - 1) :
          Program(script)[i].op = "set_input_files" => Program(script)[i].arg \in files
    /\ (IMAGE \notin files /\ script = TakeScreenshots) =>
          /\ Written \subseteq {Path("01-landing.png")}
          /\ Range(CapturedPaths) \subseteq {Path("01-landing.png")}
          /\ Len(captures) <= 1
    /\ (IMAGE \notin files /\ script = TakeMore) => (Written = {} /\ captures = <<>>)
    /\ (VIDEO \notin files /\ script = TakeMore) =>
          /\ Written \cap {Path("16-video-mode.png"), Path("17-video-halftone.png")} = {}
          /\ \A k \in DOMAIN captures : captures[k].owner = 1

\* C2 witness: take_screenshots.py failed at its upload for want of the image,
\* with 01-landing.png already written.
C2_Witness ==
    /\ script = TakeScreenshots
    /\ status = "exited"
    /\ FailedWith("FixtureNotFoundError")
    /\ Written = {Path("01-landing.png")}

\* C3: a statement that addresses a control absent from the page is never
\* passed; when the run failed on it, control is still at that statement, the
\* last statement that completed is the one before it, the captures written
\* are exactly those of the screenshot statements before it (none for the
\* failing scenario) and each of their files holds what was captured.
C3_MissingControl ==
    /\ \A i \in 1..(pc - 1) :
          Program(script)[i].op \in {"select_option", "click", "set_input_files"}
              => Program(script)[i].sel \in controls
    /\ FailedWith("ActionTargetMissingError") =>
          /\ Cur.line = failure[1].line
          /\ Cur.sel \notin controls
          /\ prev.op = Program(script)[pc - 1].op
          /\ CapturedPaths = ShotPathsUpTo(script, pc)
          /\ Written = Range(CapturedPaths)
          /\ \A k \in DOMAIN captures : disk[captures[k].path] = <<captures[k].shot>>

\* C3 witness: a select_option on a missing control failed after earlier
\* scenarios had written captures.
C3_Witness ==
    /\ status = "exited"
    /\ FailedWith("ActionTargetMissingError")
    /\ Cur.op = "select_option"
    /\ Len(captures) >= 2

\* The capture files in declaration order.
Declared1 ==
    << "01-landing.png", "02-gradient-loaded.png", "03-control-panel.png",
       "04-halftone.png", "05-creative.png", "06-retro-gameboy.png",
       "07-studio.png", "08-export.png", "09-light-theme.png" >>
Declared2 ==
    << "10-crosshatch.png", "11-blue-noise-cyberpunk.png", "12-sketch.png",
       "13-atkinson-sepia.png", "14-pixel-sort.png", "15-otsu.png",
       "16-video-mode.png", "17-video-halftone.png" >>
Declared(s) == IF s = TakeScreenshots THEN Declared1 ELSE Declared2
DeclaredPaths(s) == [k \in DOMAIN Declared(s) |-> Path(Declared(s)[k])]

\* C4: in every state of every run, complete or aborted, the captures written
\* so far are a prefix of the declared list, each to its declared path, and
\* the files on disk are exactly those.
C4_CaptureOrder ==
    /\ Len(captures) <= Len(Declared(script))
    /\ CapturedPaths = SubSeq(DeclaredPaths(script), 1, Len(captures))
    /\ Written = Range(CapturedPaths)
    /\ Cardinality(Written) = Len(captures)

\* C4 witness: a complete run of take_more_screenshots.py, all eight written.
C4_Witness ==
    /\ script = TakeMore
    /\ status = "exited"
    /\ ~Failed
    /\ Len(captures) = 8

IsWait(st) == st.op \in {"wait_for_timeout", "sleep"}
CaptureAt(line) == {k \in DOMAIN captures : captures[k].line = line}

\* C5 (as stated): every capture is immediately preceded by a wait of at
\* least 1500 ms.
C5_Original ==
    \A k \in DOMAIN captures :
        IsWait(captures[k].after) /\ captures[k].after.ms >= 1500

\* C5 (amended): every capture is taken after waits of at least 500 ms in
\* total since the last page-mutating call.  The statement before the capture
\* is a wait of at least 1500 ms for every capture of take_more_screenshots.py
\* and for captures 02, 04, 05, 06 and 07 of take_screenshots.py; capture 01
\* follows a sleep of 1000 ms, captures 08 and 09 follow waits of 500 ms, and
\* capture 03 follows the notice of capture 02 with no wait of its own.
C5_RenderSettle ==
    \A k \in DOMAIN captures :
        LET c == captures[k] IN
        /\ c.settle >= 500
        /\ IF script = TakeMore \/ c.line \in {23, 35, 43, 55, 61}
           THEN IsWait(c.after) /\ c.after.ms >= 1500 /\ c.settle = c.after.ms
           ELSE IF c.line = 17 THEN c.after = [op |-> "sleep", ms |-> 1000]
           ELSE IF c.line = 27 THEN c.after.op = "print" /\ c.settle = 2000
           ELSE c.line \in {69, 77} /\ c.after = [op |-> "wait_for_timeout", ms |-> 500]

\* C5 witness: a complete run of take_screenshots.py, with capture 08 taken
\* 500 ms after the click on #btn-export.
C5_Witness ==
    /\ script = TakeScreenshots
    /\ Len(captures) = 9
    /\ \E k \in CaptureAt(69) : captures[k].settle = 500

\* C6: whenever the script is about to issue an input action or a capture and
\* an input action came before, waits of at least 300 ms have completed since
\* that action; a dependent control is never set, and the page never captured,
\* while a repopulation is pending.
C6_SettleOrdering ==
    /\ ~FailedWith("OptionNotReadyError")
    /\ \A k \in DOMAIN captures :
          /\ \A d \in Dependents : captures[k].shot.pending[d] = 0
          /\ captures[k].settle >= 300
    /\ (status = "running" /\ ~AtEnd /\ Cur.op \in InputOps \cup {"screenshot"}
            /\ lastMut \in InputOps) =>
          /\ sinceInput >= 300
          /\ page # <<>>
          /\ Cur.op = "screenshot" => \A d \in Dependents : page[1].pending[d] = 0
          /\ Cur.sel \in Dependents => page[1].pending[Cur.sel] = 0

\* C6 witness: the script is about to set #style-algorithm, 300 ms after it
\* set #style-category.
C6_Witness ==
    /\ status = "running"
    /\ ~AtEnd
    /\ Cur.op = "select_option"
    /\ Cur.sel = StyleAlgorithm
    /\ lastMut = "select_option"
    /\ sinceInput = 300
    /\ page[1].ctl[StyleCategory] = "pattern"
    /\ page[1].ctl[StyleAlgorithm] = Repopulated

ProgressNotices == SelectSeq(notices, LAMBDA n : n.kind = "progress")
AboutToReport == status = "running" /\ ~AtEnd /\ Cur.op = "print" /\ Cur.arg.kind = "progress"

\* C7 (as stated): every progress notice has the form "{index}/{total}
\* {label}", index the scenario's position and total the number of
\* scenarios, and the notices are as many as the captures or one fewer.
C7_Original ==
    /\ Len(captures) - Len(ProgressNotices) \in {0, 1}
    /\ \A k \in DOMAIN ProgressNotices :
          /\ ProgressNotices[k].n = k
          /\ ProgressNotices[k].of = <<Len(Declared(script))>>

\* C7 (amended): the k-th progress notice reports the k-th capture and is
\* printed after that capture was written and before anything else is done:
\* the notices are one fewer than the captures exactly while the script is
\* about to print one, and as many otherwise.  In take_screenshots.py the
\* notice is "{k}/9 {label}"; in take_more_screenshots.py it is
\* "{9 + k} {label}", with no total.
C7_ProgressNotices ==
    /\ Len(captures) = Len(ProgressNotices) + (IF AboutToReport THEN 1 ELSE 0)
    /\ \A k \in DOMAIN ProgressNotices :
          IF script = TakeScreenshots
          THEN ProgressNotices[k].n = k /\ ProgressNotices[k].of = <<9>>
          ELSE ProgressNotices[k].n = 9 + k /\ ProgressNotices[k].of = <<>>
    /\ \A k \in DOMAIN notices :
          notices[k].kind = "completion" => k = Len(notices)

\* C7 witness: take_more_screenshots.py has printed "11 blue noise cyberpunk"
\* after its second capture.
C7_Witness ==
    /\ script = TakeMore
    /\ Len(captures) = 2
    /\ Len(notices) = 2
    /\ notices[2] = Progress(11, <<>>, "blue noise cyberpunk")

\* C8: a statement either returns, and control moves to the next one, or
\* raises, and then control never moves again: no statement, capture or notice
\* follows, only the exit of the with-block; no statement is attempted twice.
C8_AbortImmediately ==
    [][ /\ (Failed' => status' # "running")
        /\ (status = "running" /\ status' = "running") => pc' = pc + 1
        /\ (status = "running" /\ status' = "raised") =>
              /\ Failed' /\ ~Failed
              /\ UNCHANGED <<pc, page, disk, captures, notices, browsers, browser, prev>>
        /\ (status # "running") =>
              /\ status' = "exited"
              /\ UNCHANGED <<pc, failure, page, disk, captures, notices, browser, prev,
                             sinceInput, lastMut>>
      ]_vars

\* C8 witness: a run that failed after three captures, with scenarios left, and
\* has left the with-block.
C8_Witness ==
    /\ status = "exited"
    /\ Failed
    /\ Len(captures) = 3
    /\ Len(notices) = 3
    /\ pc < Len(Program(script))
    /\ Cur.op \in InputOps

\* The select actions sels applied in order to pg.
RECURSIVE ApplySelects(_, _)
ApplySelects(sels, pg) ==
    IF sels = <<>> THEN pg
    ELSE AppSelect(ApplySelects(SubSeq(sels, 1, Len(sels) - 1), pg),
                   sels[Len(sels)].sel, sels[Len(sels)].arg)

\* The controls after the statements first..last of a script, from pg: a
\* new_page starts from a new page, the select actions after it apply in order.
Replay(s, first, last, pg) ==
    LET opened == {j \in first..last : Program(s)[j].op = "new_page"}
        from == IF opened = {} THEN first
                ELSE CHOOSE j \in opened : \A m \in opened : m <= j
        sels == SelectSeq(SubSeq(Program(s), from, last),
                          LAMBDA st : st.op = "select_option")
    IN ApplySelects(sels, IF opened = {} THEN pg ELSE FreshPage(0))
IndexOfLine(s, line) == CHOOSE i \in DOMAIN Program(s) : Program(s)[i].line = line

\* C9: at each capture every control has the value that the select actions
\* of all scenarios of the session so far, applied in order, leave.  At
\* 10-crosshatch the style category is pattern and the algorithm crosshatch;
\* at 15-otsu the palette category is still default, as scenario 14 left it.
C9_CumulativeState ==
    \A k \in DOMAIN captures :
        LET c == captures[k] IN
        /\ c.shot.ctl = Replay(script, 1, IndexOfLine(script, c.line), FreshPage(0)).ctl
        /\ c.path = Path("10-crosshatch.png") =>
              /\ c.shot.ctl[StyleCategory] = "pattern"
              /\ c.shot.ctl[StyleAlgorithm] = "crosshatch"
        /\ c.path = Path("15-otsu.png") =>
              /\ c.shot.ctl[PaletteCategory] = "default"
              /\ c.shot.ctl[PaletteSelect] = "bw"
              /\ c.shot.ctl[StyleCategory] = "threshold"
              /\ c.shot.ctl[StyleAlgorithm] = "otsu"
        /\ c.path = Path("07-studio.png") =>
              c.shot.ctl = (StyleCategory :> "ordered" @@ StyleAlgorithm :> "bayer-4x4"
                            @@ PaletteCategory :> "retro" @@ PaletteSelect :> "gameboy")

\* C9 witness: 15-otsu.png has been captured.
C9_Witness ==
    \E k \in DOMAIN captures : captures[k].path = Path("15-otsu.png")

PageOps == InputOps \cup {"goto", "wait_for_load_state", "wait_for_timeout", "screenshot"}

\* C10: at most one browser is live; a second browser exists only once the
\* first is closed; a page operation is only issued on the page of the live
\* browser; captures 16 and 17 belong to the second browser and show nothing
\* that scenarios 10..15 set.
C10_OneLivePage ==
    /\ Cardinality(LiveBrowsers) <= 1
    /\ Len(browsers) <= 2
    /\ Len(browsers) = 2 => (script = TakeMore /\ browsers[1] = "closed")
    /\ ~FailedWith("TargetClosedError")
    /\ (status = "running" /\ ~AtEnd /\ Cur.op \in PageOps) =>
          (PageLive /\ page[1].owner = browser /\ LiveBrowsers = {browser})
    /\ \A k \in DOMAIN captures :
          LET c == captures[k] IN
          /\ c.owner = (IF c.line \in {100, 108} /\ script = TakeMore THEN 2 ELSE 1)
          /\ c.path = Path("16-video-mode.png") =>
                /\ c.shot.media = "video"
                /\ c.shot.ctl = [x \in Selects |-> Initial]
          /\ c.path = Path("17-video-halftone.png") =>
                c.shot.ctl = (StyleCategory :> "halftone" @@ StyleAlgorithm :> "dot-halftone"
                              @@ PaletteCategory :> Initial @@ PaletteSelect :> Initial)

\* C10 witness: the video session has captured 17-video-halftone.png in the
\* second browser, the first being closed.
C10_Witness ==
    /\ Len(browsers) = 2
    /\ browsers = <<"closed", "live">>
    /\ \E k \in DOMAIN captures : captures[k].path = Path("17-video-halftone.png")

\* The statements of the script from the last new_page before index i up to,
\* not including, i.
SessionStart(s, i) ==
    CHOOSE j \in 1..i : /\ Program(s)[j].op = "new_page"
                        /\ \A m \in (j + 1)..(i - 1) : Program(s)[m].op # "new_page"

\* C11: when take_more_screenshots.py is about to take 16-video-mode.png, the
\* last page-mutating call was the upload of the video, 3000 ms of waiting
\* have completed since, and the page shows the video with every control,
\* the overlays and the theme as a new page has them; the capture written
\* shows exactly that.
C11_VideoDefaultState ==
    /\ (script = TakeMore /\ status = "running" /\ ~AtEnd /\ Cur.line = 100) =>
          /\ Cur.arg = Path("16-video-mode.png")
          /\ lastMut = "set_input_files"
          /\ sinceInput = 3000
          /\ prev = [op |-> "wait_for_timeout", ms |-> 3000]
          /\ page[1].owner = 2
          /\ Snapshot(page[1]) = Snapshot(AppUpload(FreshPage(2), VIDEO))
    /\ \A k \in DOMAIN captures :
          captures[k].path = Path("16-video-mode.png") =>
              /\ captures[k].shot = Snapshot(AppUpload(FreshPage(2), VIDEO))
              /\ captures[k].shot.media = "video"
              /\ captures[k].shot.ctl = [x \in Selects |-> Initial]
              /\ captures[k].shot.overlays = <<>>
              /\ captures[k].settle = 3000
              /\ captures[k].after = [op |-> "wait_for_timeout", ms |-> 3000]
              /\ \A m \in SessionStart(script, IndexOfLine(script, 100))..
                          (IndexOfLine(script, 100) - 1) :
                    Program(script)[m].op \notin {"select_option", "click", "press", "evaluate"}

\* C11 witness: 16-video-mode.png has been written.
C11_Witness ==
    /\ script = TakeMore
    /\ disk[Path("16-video-mode.png")] # <<>>
    /\ Len(captures) = 7

\* Failures that come from outside the script and the application's controls:
\* the driver, the browser, the server or the output directory.
Transient == {"DriverError", "LaunchError", "NavigationError", "CaptureError"}
Repeatable(f) == f = <<>> \/ f[1].cause \notin Transient
IsPrefix(a, b) == Len(a) <= Len(b) /\ a = SubSeq(b, 1, Len(a))
LastRun == earlier[Len(earlier)]

\* C12: a run that follows an earlier run of the same script against the same
\* application and fixtures, neither meeting a transient failure, repeats it:
\* its captures (path, content, timing) and notices are at every moment a
\* prefix of the earlier run's and at its end equal to them, it ends the same
\* way, and the output directory then holds what it held after the earlier
\* run.  Every capture writes its file whether or not the file exists: the
\* file holds what the latest capture to that path showed.
C12_RerunIdempotent ==
    /\ \A k \in DOMAIN captures : disk[captures[k].path] = <<captures[k].shot>>
    /\ (earlier # <<>> /\ Repeatable(failure) /\ Repeatable(LastRun.failure)) =>
          /\ IsPrefix(captures, LastRun.captures)
          /\ IsPrefix(notices, LastRun.notices)
          /\ \A f \in AllPaths : LastRun.disk[f] # <<>> => disk[f] = LastRun.disk[f]
          /\ status = "exited" =>
                /\ captures = LastRun.captures
                /\ notices = LastRun.notices
                /\ failure = LastRun.failure
                /\ disk = LastRun.disk

\* C12 witness: a second complete run of take_screenshots.py has ended, with
\* all nine files written again.
C12_Witness ==
    /\ script = TakeScreenshots
    /\ earlier # <<>>
    /\ status = "exited"
    /\ ~Failed
    /\ LastRun.failure = <<>>
    /\ Len(captures) = 9

\* C13: when a statement of the image session of take_more_screenshots.py
\* (lines 10..86) failed, no second browser is ever launched, neither
\* 16-video-mode.png nor 17-video-halftone.png is written, and every file
\* captured before the failure is on disk with what was captured.
C13_ErrorEndsRun ==
    (script = TakeMore /\ Failed /\ failure[1].line <= 86) =>
        /\ Len(browsers) <= 1
        /\ Cur.line = failure[1].line
        /\ status # "running"
        /\ disk[Path("16-video-mode.png")] = <<>>
        /\ disk[Path("17-video-halftone.png")] = <<>>
        /\ \A k \in DOMAIN captures :
              /\ captures[k].line < failure[1].line
              /\ disk[captures[k].path] = <<captures[k].shot>>
        /\ CapturedPaths = ShotPathsUpTo(script, pc - 1)
        /\ Written = Range(CapturedPaths)

\* C13 witness: the image session failed at scenario 12 after two captures,
\* and the run has ended with those two files on disk.
C13_Witness ==
    /\ script = TakeMore
    /\ status = "exited"
    /\ Failed
    /\ failure[1].line \in 41..49
    /\ Written = {Path("10-crosshatch.png"), Path("11-blue-noise-cyberpunk.png")}

CompletionNotices == SelectSeq(notices, LAMBDA n : n.kind = "completion")
CompletionText(s) == IF s = TakeScreenshots THEN "All screenshots captured." ELSE "Done."

\* C14: the completion notice is printed at most once and last; when it has
\* been printed no statement failed, every scenario has written its capture
\* and printed its progress notice, and every browser launched is closed.
\* A run in which a statement failed has printed no completion notice.
C14_CompletionNotice ==
    /\ Len(CompletionNotices) <= 1
    /\ Failed => CompletionNotices = <<>>
    /\ CompletionNotices # <<>> =>
          /\ ~Failed
          /\ notices[Len(notices)] = Completion(CompletionText(script))
          /\ CapturedPaths = DeclaredPaths(script)
          /\ Written = Range(DeclaredPaths(script))
          /\ Len(ProgressNotices) = Len(Declared(script))
          /\ browsers # <<>>
          /\ LiveBrowsers = {}
          /\ AtEnd

\* C14 witness: take_more_screenshots.py has printed 'Done.'.
C14_Witness ==
    /\ script = TakeMore
    /\ CompletionNotices = <<Completion("Done.")>>
    /\ Len(browsers) = 2

OverlaysAt(line) == {captures[k].shot.overlays : k \in CaptureAt(line)}

\* C15: in take_screenshots.py at most one overlay is open in every state;
\* when #btn-export is about to be clicked the Studio overlay has been
\* dismissed and its settle wait has completed, and when the theme is about
\* to be changed the export overlay has been dismissed; capture 07 shows the
\* Studio overlay, capture 08 only the export overlay, and captures 01..06
\* and 09 no overlay.
C15_OneOverlay ==
    script = TakeScreenshots =>
        /\ page # <<>> => Len(page[1].overlays) <= 1
        /\ (status = "running" /\ ~AtEnd /\ Cur.line = 67) =>
              /\ page[1].overlays = <<>>
              /\ lastMut = "press"
              /\ sinceInput >= 300
        /\ (status = "running" /\ ~AtEnd /\ Cur.line = 75) =>
              /\ page[1].overlays = <<>>
              /\ lastMut = "press"
        /\ \A k \in DOMAIN captures :
              captures[k].shot.overlays =
                  (IF captures[k].line = 61 THEN <<"studio">>
                   ELSE IF captures[k].line = 69 THEN <<"export">>
                   ELSE <<>>)
        /\ \A k \in DOMAIN captures :
              captures[k].line = 77 => captures[k].shot.theme = "light"

\* C15 witness: all nine captures taken, 08-export.png showing the export
\* overlay alone.
C15_Witness ==
    /\ script = TakeScreenshots
    /\ Len(captures) = 9
    /\ OverlaysAt(69) = {<<"export">>}
    /\ OverlaysAt(77) = {<<>>}

\* The state of the scenario the script is in.
Phase ==
    IF status # "running" THEN (IF Failed THEN "Aborted" ELSE "Completed")
    ELSE IF AtEnd THEN "Completed"
    ELSE IF Cur.op \in InputOps THEN "Applying"
    ELSE IF Cur.op = "wait_for_timeout" THEN "Settling"
    ELSE IF Cur.op = "screenshot" THEN "Capturing"
    ELSE IF Cur.op = "print" THEN "Done"
    ELSE "Idle"

\* C16: a scenario only moves forward: an action is followed by its settle
\* wait, a capture by its notice, a capture is entered from a wait or from the
\* notice of the scenario before; control and the number of captures never go
\* back; no step is taken once the run has ended.  Every run ends: it leaves
\* the with-block either aborted, or completed with every capture written
\* and the completion notice printed.
C16_ForwardAndTerminates ==
    /\ [](/\ (Phase \in {"Applying", "Capturing"} /\ prev.op \in InputOps) => FALSE
          /\ (Phase = "Settling") => prev.op \in InputOps
          /\ (status = "running" /\ prev.op = "screenshot") => Phase = "Done"
          /\ (Phase = "Capturing") => (IsWait(prev) \/ prev.op = "print"))
    /\ [][/\ pc' >= pc
          /\ Len(captures') >= Len(captures)
          /\ status # "exited"
          /\ (status = "raised" => status' = "exited")]_vars
    /\ <>[](/\ status = "exited"
            /\ \/ Failed
               \/ /\ CapturedPaths = DeclaredPaths(script)
                  /\ CompletionNotices # <<>>)

\* C16 witness: a complete run of take_screenshots.py has left the
\* with-block, its completion notice printed.
C16_Witness ==
    /\ script = TakeScreenshots
    /\ status = "exited"
    /\ Phase = "Completed"
    /\ CompletionNotices = <<Completion("All screenshots captured.")>>
====
